---- MODULE Spec2Model ----
(***************************************************************************)
(* Model of the two deterministic components of car-photo-app's            *)
(* vehicle_detection package:                                              *)
(*   - DamageDetector.detect_damage / generate_report / assess_severity    *)
(*     (inference.py), the damage report and its severity label;           *)
(*   - VehiDEToYOLO.convert_bbox_to_yolo (convert_to_yolo.py), the pixel   *)
(*     bbox -> normalized centre-form conversion.                          *)
(*                                                                         *)
(* Python exceptions are modelled as results: every modelled function      *)
(* yields [kind |-> "return", value |-> v] or                              *)
(* [kind |-> "raise", exception |-> name].  Python floats are modelled as  *)
(* exact rationals [num, den] in lowest terms with den > 0; confidences    *)
(* are percentages and detector coordinates are tenths of a pixel.         *)
(***************************************************************************)
EXTENDS Integers, Sequences, FiniteSets, TLC

VARIABLES
    pc,          \* position of the inference run: "detecting" | "reported" | "mutated"
    damages,     \* the list detect_damage is building (inference.py:61)
    result,      \* outcome of generate_report(damages, image)
    bpc,         \* position of the conversion run: "input" | "converted" | "restored"
    bbox,        \* pixel bbox <<x_min, y_min, x_max, y_max>> of one annotation
    img_width,   \* image width handed to convert_bbox_to_yolo
    img_height,  \* image height handed to convert_bbox_to_yolo
    yolo_bbox,   \* outcome of convert_bbox_to_yolo(bbox, img_width, img_height)
    restored,    \* the pixel bbox computed back from yolo_bbox
    started,     \* api_server: the startup event has run
    model_file,  \* detector.model_path.exists()
    detector_model,  \* detector.model of the one shared DamageDetector
    tmpfiles,    \* the temporary directory: file name -> [owner, content]
    req,         \* api_server: the local state of each request
    lpc,         \* process_annotations: "start" | "writing" | "closed"
    annotation,  \* the annotation being processed: image shape and damages
    next_damage, \* index of the next damage of the loop over the damages
    label_text,  \* what has been written to the label file, piece by piece
    processed_count  \* process_annotations: processed_count

vars == <<pc, damages, result, bpc, bbox, img_width, img_height, yolo_bbox, restored,
          started, model_file, detector_model, tmpfiles, req,
          lpc, annotation, next_damage, label_text, processed_count>>

severityVars == <<pc, damages, result>>
bboxVars == <<bpc, bbox, img_width, img_height, yolo_bbox, restored>>
apiVars == <<started, model_file, detector_model, tmpfiles, req>>
labelVars == <<lpc, annotation, next_damage, label_text, processed_count>>

(***************************************************************************)
(* Bounds of the model.                                                    *)
(***************************************************************************)
MaxDetections == 5
MaxPixel == 3
NumRequests == 2
MaxAnnotations == 3

(***************************************************************************)
(* Results of the modelled Python calls.                                   *)
(***************************************************************************)
Return(v) == [kind |-> "return", value |-> v]
Raise(e) == [kind |-> "raise", exception |-> e]
NotCalled == [kind |-> "none"]
ReturnNone == [kind |-> "return_none"]

(***************************************************************************)
(* inference.py : DamageDetector                                           *)
(***************************************************************************)
damage_classes ==
    (0 :> "scratch") @@ (1 :> "dent") @@ (2 :> "crack") @@ (3 :> "glass_damage")
    @@ (4 :> "paint_damage") @@ (5 :> "bumper_damage") @@ (6 :> "headlight_damage")
    @@ (7 :> "tire_damage") @@ (8 :> "rust") @@ (9 :> "broken_part")

\* The boxes the external YOLO model may yield for an image: class id,
\* confidence (percent) and xyxy corners (tenths of a pixel).
DetectorBoxes ==
    { [cls |-> 0,  conf |-> 50, xyxy |-> <<105, 20, 407, 309>>],
      [cls |-> 1,  conf |-> 90, xyxy |-> <<105, 20, 407, 309>>],
      [cls |-> 2,  conf |-> 50, xyxy |-> <<105, 20, 407, 309>>],
      [cls |-> 2,  conf |-> 90, xyxy |-> <<0, 15, 99, 101>>],
      [cls |-> 3,  conf |-> 90, xyxy |-> <<105, 20, 407, 309>>],
      [cls |-> 9,  conf |-> 50, xyxy |-> <<0, 15, 99, 101>>],
      [cls |-> 10, conf |-> 50, xyxy |-> <<105, 20, 407, 309>>],
      [cls |-> 11, conf |-> 90, xyxy |-> <<0, 15, 99, 101>>] }

\* int(x) of a non-negative float held in tenths.
IntOf(tenths) == tenths \div 10

\* self.damage_classes.get(class_id, f"unknown_{class_id}")
DamageTypeOf(class_id) ==
    IF class_id \in DOMAIN damage_classes
    THEN damage_classes[class_id]
    ELSE "unknown_" \o ToString(class_id)

\* The damage_info dict built for one box.
damage_info(box) ==
    [ type |-> DamageTypeOf(box.cls),
      confidence |-> box.conf,
      bbox |-> box.xyxy,
      bbox_formatted |-> [ x1 |-> IntOf(box.xyxy[1]), y1 |-> IntOf(box.xyxy[2]),
                           x2 |-> IntOf(box.xyxy[3]), y2 |-> IntOf(box.xyxy[4]) ] ]

severe_damages == {"broken_part", "glass_damage", "crack"}

RECURSIVE SumConfidence(_)
SumConfidence(ds) ==
    IF ds = <<>> THEN 0 ELSE ds[1].confidence + SumConfidence(Tail(ds))

RECURSIVE SevereCount(_)
SevereCount(ds) ==
    IF ds = <<>> THEN 0
    ELSE (IF ds[1].type \in severe_damages THEN 1 ELSE 0) + SevereCount(Tail(ds))

\* SeverityRule with the Severe test conjoined instead of disjoined.
SeverityRuleConjoined(severe_count, total_damages) ==
    IF severe_count >= 3 /\ total_damages >= 5 THEN "Severe"
    ELSE IF severe_count >= 1 \/ total_damages >= 3 THEN "Moderate"
    ELSE IF total_damages >= 1 THEN "Minor"
    ELSE "No damage"

\* SeverityRule with strict comparisons on the total (off by one).
SeverityRuleStrictTotals(severe_count, total_damages) ==
    IF severe_count >= 3 \/ total_damages > 5 THEN "Severe"
    ELSE IF severe_count >= 1 \/ total_damages > 3 THEN "Moderate"
    ELSE IF total_damages >= 1 THEN "Minor"
    ELSE "No damage"

\* SeverityRule deciding on the total alone before any severe-type test.
SeverityRuleTotalsFirst(severe_count, total_damages) ==
    IF total_damages >= 5 THEN "Severe"
    ELSE IF total_damages >= 3 THEN "Moderate"
    ELSE IF total_damages >= 1 THEN "Minor"
    ELSE IF severe_count >= 3 THEN "Severe"
    ELSE IF severe_count >= 1 THEN "Moderate"
    ELSE "No damage"

\* SeverityRule testing the Moderate total for equality instead of >=.
SeverityRuleExactTotal(severe_count, total_damages) ==
    IF severe_count >= 3 \/ total_damages >= 5 THEN "Severe"
    ELSE IF severe_count >= 1 \/ total_damages = 3 THEN "Moderate"
    ELSE IF total_damages >= 1 THEN "Minor"
    ELSE "No damage"

\* The threshold chain of assess_severity, after the counts are known.
SeverityRule(severe_count, total_damages) ==
    IF severe_count >= 3 \/ total_damages >= 5 THEN "Severe"
    ELSE IF severe_count >= 1 \/ total_damages >= 3 THEN "Moderate"
    ELSE IF total_damages >= 1 THEN "Minor"
    ELSE "No damage"

\* assess_severity without its "if not damages" guard: the average then
\* divides by zero for the empty list.
AssessSeverityUnguarded(ds) ==
    LET total_damages == Len(ds)
    IN  IF total_damages = 0 THEN Raise("ZeroDivisionError")
        ELSE Return(SeverityRule(SevereCount(ds), total_damages))

assess_severity(ds) ==
    IF ds = <<>> THEN Return("No damage detected")
    ELSE LET total_damages == Len(ds)
         IN  IF total_damages = 0 THEN Raise("ZeroDivisionError")
             ELSE LET avg_confidence == SumConfidence(ds) \div total_damages
                  IN  Return(SeverityRule(SevereCount(ds), total_damages))

\* CountOne assigning 1 instead of incrementing.
CountOneAssign(summary, damage_type) ==
    LET s0 == IF damage_type \notin DOMAIN summary
              THEN summary @@ (damage_type :> 0)
              ELSE summary
    IN  [s0 EXCEPT ![damage_type] = 1]

\* One pass of the "Count damage types" loop body.
CountOne(summary, damage_type) ==
    LET s0 == IF damage_type \notin DOMAIN summary
              THEN summary @@ (damage_type :> 0)
              ELSE summary
    IN  [s0 EXCEPT ![damage_type] = @ + 1]

RECURSIVE CountDamageTypes(_, _)
CountDamageTypes(summary, ds) ==
    IF ds = <<>> THEN summary
    ELSE CountDamageTypes(CountOne(summary, ds[1].type), Tail(ds))

EmptyDict == [k \in {} |-> 0]

\* A Python list value is either the caller's list object itself (a
\* reference, whose elements are whatever that list holds now) or a new
\* list holding a copy of the elements.
InputList == [ref |-> "damages"]
NewList(ds) == [copy |-> ds]
ElementsOf(list) == IF "ref" \in DOMAIN list THEN damages ELSE list.copy

\* generate_report storing list(damages), a copy, in the report.
GenerateReportCopying(ds, image_path) ==
    LET severity == assess_severity(ds)
    IN  IF severity.kind = "raise" THEN severity
        ELSE Return([ image |-> image_path,
                      total_damages |-> Len(ds),
                      damage_summary |-> CountDamageTypes(EmptyDict, ds),
                      detailed_damages |-> NewList(ds),
                      severity_assessment |-> severity.value ])

\* ds is the content of the list passed as damages; the report's
\* detailed_damages is that very list ('detailed_damages': damages).
generate_report(ds, image_path) ==
    LET severity == assess_severity(ds)
    IN  IF severity.kind = "raise" THEN severity
        ELSE Return([ image |-> image_path,
                      total_damages |-> Len(ds),
                      damage_summary |-> CountDamageTypes(EmptyDict, ds),
                      detailed_damages |-> InputList,
                      severity_assessment |-> severity.value ])

(***************************************************************************)
(* Actions of the inference run.                                           *)
(***************************************************************************)
\* One turn of the loop over the model's boxes (inference.py:66-86).
DetectBox ==
    /\ pc = "detecting"
    /\ Len(damages) < MaxDetections
    /\ \E box \in DetectorBoxes : damages' = Append(damages, damage_info(box))
    /\ UNCHANGED <<pc, result, bboxVars, apiVars, labelVars>>

\* detect_damage has returned its list; the caller builds the report.
GenerateReport ==
    /\ pc = "detecting"
    /\ result' = generate_report(damages, "car.jpg")
    /\ pc' = "reported"
    /\ UNCHANGED <<damages, bboxVars, apiVars, labelVars>>

\* The caller, which still holds the list it passed to generate_report,
\* changes it after the report is built.
CallerAppends ==
    /\ pc = "reported"
    /\ result.kind = "return"
    /\ Len(damages) < MaxDetections
    /\ \E box \in DetectorBoxes : damages' = Append(damages, damage_info(box))
    /\ pc' = "mutated"
    /\ UNCHANGED <<result, bboxVars, apiVars, labelVars>>

(***************************************************************************)
(* convert_to_yolo.py : VehiDEToYOLO.convert_bbox_to_yolo                  *)
(* Float values are exact rationals [num, den], den > 0, in lowest terms.  *)
(***************************************************************************)
Abs(n) == IF n < 0 THEN 0 - n ELSE n

RECURSIVE Gcd(_, _)
Gcd(a, b) == IF b = 0 THEN a ELSE Gcd(b, a % b)

\* The value n/d (d # 0) in canonical form.
Rat(n, d) ==
    LET g == Gcd(Abs(n), Abs(d))
        sgn == IF d < 0 THEN 0 - 1 ELSE 1
    IN  [num |-> (sgn * n) \div g, den |-> (sgn * d) \div g]

\* Python's x / k: ZeroDivisionError when k = 0.
Divide(x, k) ==
    IF k = 0 THEN Raise("ZeroDivisionError")
    ELSE Return(Rat(x.num, x.den * k))

\* convert_bbox_to_yolo normalizing y_center by the image width.
ConvertYCenterByWidth(box, width_px, height_px) ==
    LET xc == Divide(Rat(box[1] + box[3], 2), width_px)
        yc == Divide(Rat(box[2] + box[4], 2), width_px)
        w == Divide(Rat(box[3] - box[1], 1), width_px)
        h == Divide(Rat(box[4] - box[2], 1), height_px)
    IN  IF xc.kind = "raise" THEN xc
        ELSE IF yc.kind = "raise" THEN yc
        ELSE IF w.kind = "raise" THEN w
        ELSE IF h.kind = "raise" THEN h
        ELSE Return(<<xc.value, yc.value, w.value, h.value>>)

\* convert_bbox_to_yolo computing width and height as sums of the corners.
ConvertSizeAsSum(box, width_px, height_px) ==
    LET xc == Divide(Rat(box[1] + box[3], 2), width_px)
        yc == Divide(Rat(box[2] + box[4], 2), height_px)
        w == Divide(Rat(box[3] + box[1], 1), width_px)
        h == Divide(Rat(box[4] + box[2], 1), height_px)
    IN  IF xc.kind = "raise" THEN xc
        ELSE IF yc.kind = "raise" THEN yc
        ELSE IF w.kind = "raise" THEN w
        ELSE IF h.kind = "raise" THEN h
        ELSE Return(<<xc.value, yc.value, w.value, h.value>>)

Clamp01(r) ==
    IF r.num < 0 THEN Rat(0, 1) ELSE IF r.num > r.den THEN Rat(1, 1) ELSE r

\* convert_bbox_to_yolo clamping its outputs to [0,1].
ConvertClamped(box, width_px, height_px) ==
    LET xc == Divide(Rat(box[1] + box[3], 2), width_px)
        yc == Divide(Rat(box[2] + box[4], 2), height_px)
        w == Divide(Rat(box[3] - box[1], 1), width_px)
        h == Divide(Rat(box[4] - box[2], 1), height_px)
    IN  IF xc.kind = "raise" THEN xc
        ELSE IF yc.kind = "raise" THEN yc
        ELSE IF w.kind = "raise" THEN w
        ELSE IF h.kind = "raise" THEN h
        ELSE Return(<<Clamp01(xc.value), Clamp01(yc.value),
                      Clamp01(w.value), Clamp01(h.value)>>)

\* convert_bbox_to_yolo rejecting non-positive image dimensions up front.
ConvertValidating(box, width_px, height_px) ==
    IF width_px <= 0 \/ height_px <= 0 THEN Raise("InvalidDimension")
    ELSE Return(<< Rat(box[1] + box[3], 2 * width_px),
                   Rat(box[2] + box[4], 2 * height_px),
                   Rat(box[3] - box[1], width_px),
                   Rat(box[4] - box[2], height_px) >>)

convert_bbox_to_yolo(box, width_px, height_px) ==
    LET x_min == box[1]
        y_min == box[2]
        x_max == box[3]
        y_max == box[4]
        x_center == Rat(x_min + x_max, 2)
        y_center == Rat(y_min + y_max, 2)
        width == Rat(x_max - x_min, 1)
        height == Rat(y_max - y_min, 1)
        xc == Divide(x_center, width_px)
        yc == Divide(y_center, height_px)
        w == Divide(width, width_px)
        h == Divide(height, height_px)
    IN  IF xc.kind = "raise" THEN xc
        ELSE IF yc.kind = "raise" THEN yc
        ELSE IF w.kind = "raise" THEN w
        ELSE IF h.kind = "raise" THEN h
        ELSE Return(<<xc.value, yc.value, w.value, h.value>>)

(***************************************************************************)
(* The inverse conversion of the BBoxNormalizer ("and back"): the corners  *)
(* of a centre-form box scaled by the image dimensions.                    *)
(***************************************************************************)
RatAdd(a, b) == Rat(a.num * b.den + b.num * a.den, a.den * b.den)
RatSub(a, b) == Rat(a.num * b.den - b.num * a.den, a.den * b.den)
RatScale(a, k) == Rat(a.num * k, a.den)
RatHalf(a) == Rat(a.num, a.den * 2)

denormalize_bbox(yolo, width_px, height_px) ==
    LET xc == yolo[1]
        yc == yolo[2]
        w == yolo[3]
        h == yolo[4]
    IN  << RatScale(RatSub(xc, RatHalf(w)), width_px),
           RatScale(RatSub(yc, RatHalf(h)), height_px),
           RatScale(RatAdd(xc, RatHalf(w)), width_px),
           RatScale(RatAdd(yc, RatHalf(h)), height_px) >>

(***************************************************************************)
(* Actions of the conversion run.                                          *)
(***************************************************************************)
PixelCoords == (0 - 1)..(MaxPixel + 1)
ImageDims == (0 - 1)..MaxPixel

\* process_annotations hands one annotation's bbox and the image size to
\* the conversion (convert_to_yolo.py:117).
ConvertBBox ==
    /\ bpc = "input"
    /\ yolo_bbox' = convert_bbox_to_yolo(bbox, img_width, img_height)
    /\ bpc' = "converted"
    /\ UNCHANGED <<bbox, img_width, img_height, restored, severityVars, apiVars, labelVars>>

\* The normalized box is scaled back with the same image size.
DenormalizeBBox ==
    /\ bpc = "converted"
    /\ yolo_bbox.kind = "return"
    /\ restored' = Return(denormalize_bbox(yolo_bbox.value, img_width, img_height))
    /\ bpc' = "restored"
    /\ UNCHANGED <<bbox, img_width, img_height, yolo_bbox, severityVars, apiVars, labelVars>>

(***************************************************************************)
(* api_server.py : the two detection endpoints, served by one shared       *)
(* DamageDetector.  A request's steps are separate actions; the event loop *)
(* runs a handler without interruption between its awaits, so every        *)
(* schedule of the code is among the interleavings of these steps.         *)
(***************************************************************************)
Requests == 1..NumRequests

\* What a client may upload: the declared content type ("None" = absent) and
\* what the bytes are: "notimage" cannot be opened by PIL; "bilevel" opens
\* as a boolean array that cv2.imwrite refuses; "truncated" is written but
\* makes the model's inference raise; "clean" and "cracked" are analysed.
Uploads ==
    { [content_type |-> "None",       image |-> "clean"],
      [content_type |-> "text/plain", image |-> "notimage"],
      [content_type |-> "image/png",  image |-> "notimage"],
      [content_type |-> "image/png",  image |-> "bilevel"],
      [content_type |-> "image/jpeg", image |-> "clean"],
      [content_type |-> "image/jpeg", image |-> "cracked"],
      [content_type |-> "image/jpeg", image |-> "truncated"] }

\* The requests a client may send: every upload to /detect-damage, and the
\* uploads declared as images to /detect-damage-with-image (which never
\* looks at the content type).
ClientRequests ==
    { [endpoint |-> "/detect-damage", upload |-> u] : u \in Uploads }
    \cup { [endpoint |-> "/detect-damage-with-image", upload |-> u] :
              u \in {v \in Uploads : v.content_type = "image/png"
                                      \/ v.image \in {"clean", "cracked"}} }

\* file.filename, chosen by the client.
FilenameOf(r) == "car" \o ToString(r) \o ".jpg"

\* The boxes the model finds in an image file.
BoxesIn(image) ==
    IF image = "cracked"
    THEN << [cls |-> 2,  conf |-> 90, xyxy |-> <<0, 15, 99, 101>>],
            [cls |-> 10, conf |-> 50, xyxy |-> <<105, 20, 407, 309>>] >>
    ELSE <<>>

HTTPException(status_code, detail) ==
    [type |-> "HTTPException", status_code |-> status_code, detail |-> detail]
Exception(type) == [type |-> type]

\* file.content_type.startswith('image/')
StartsWithImage(content_type) == content_type \in {"image/png", "image/jpeg"}

\* load_model: the new value of self.model.
load_model(file_exists) == IF file_exists THEN "YOLO" ELSE "None"

\* detect_damage(image_path): (outcome, self.model afterwards).
detect_damage(image_path, model, file_exists, files) ==
    LET loaded == IF model = "None" THEN load_model(file_exists) ELSE model
    IN  IF loaded = "None" THEN [out |-> ReturnNone, model |-> loaded]
        ELSE IF image_path \notin DOMAIN files
        THEN [out |-> ReturnNone, model |-> loaded]
        ELSE IF files[image_path].content = "truncated"
        THEN [out |-> Raise(Exception("RuntimeError")), model |-> loaded]
        ELSE LET boxes == BoxesIn(files[image_path].content)
             IN  [out |-> Return([i \in 1..Len(boxes) |-> damage_info(boxes[i])]),
                  model |-> loaded]

\* tempfile.NamedTemporaryFile with one fixed name for every request.
FixedTempName(files) == 1

\* tempfile.NamedTemporaryFile: a name no existing file has.
NamedTemporaryFile(files) ==
    CHOOSE n \in 1..(Cardinality(DOMAIN files) + 1) :
        /\ n \notin DOMAIN files
        /\ \A m \in 1..(n - 1) : m \in DOMAIN files

\* An outer handler that lets an HTTPException through unchanged.
ProcessingErrorKeepingHttp(e) ==
    IF e.type = "HTTPException"
    THEN [status |-> e.status_code, detail |-> <<e.detail>>]
    ELSE [status |-> 500, detail |-> <<"Processing error: ", e>>]

\* The response of the outer "except Exception as e": the detail is the
\* text "Processing error: " followed by str(e).
ProcessingError(e) ==
    [status |-> 500, detail |-> <<"Processing error: ", e>>]

\* The JSON body: API metadata, then the report's fields; the list the
\* report refers to is written out as it is at that moment.
ApiResponse(r, report, ds) ==
    [status |-> 200,
     body |-> [ success |-> TRUE,
                filename |-> FilenameOf(r),
                confidence_threshold |-> 50,
                image |-> report.image,
                total_damages |-> report.total_damages,
                damage_summary |-> report.damage_summary,
                detailed_damages |-> ds,
                severity_assessment |-> report.severity_assessment ]]

IdleRequest ==
    [pc |-> "idle", endpoint |-> "none", upload |-> [content_type |-> "None", image |-> "none"],
     temp_path |-> 0, damages |-> <<>>, detect_calls |-> 0,
     pending |-> NotCalled, response |-> NotCalled]

Fail(r, e) ==
    req' = [req EXCEPT ![r].pc = "done", ![r].response = ProcessingError(e)]

startup_event ==
    /\ ~started
    /\ started' = TRUE
    /\ detector_model' = load_model(model_file)
    /\ UNCHANGED <<model_file, tmpfiles, req, severityVars, bboxVars, labelVars>>

\* The model is trained and its weights file written while the server runs.
InstallModel ==
    /\ started
    /\ ~model_file
    /\ model_file' = TRUE
    /\ UNCHANGED <<started, detector_model, tmpfiles, req, severityVars, bboxVars, labelVars>>

Receive(r) ==
    /\ started
    /\ req[r].pc = "idle"
    /\ \E c \in ClientRequests :
           req' = [req EXCEPT ![r].endpoint = c.endpoint, ![r].upload = c.upload,
                              ![r].pc = IF c.endpoint = "/detect-damage"
                                        THEN "validate" ELSE "read"]
    /\ UNCHANGED <<started, model_file, detector_model, tmpfiles, severityVars, bboxVars, labelVars>>

\* api_server.py:74-75.
Validate(r) ==
    /\ req[r].pc = "validate"
    /\ IF req[r].upload.content_type = "None"
       THEN Fail(r, Exception("AttributeError"))
       ELSE IF ~StartsWithImage(req[r].upload.content_type)
       THEN Fail(r, HTTPException(400, "File must be an image"))
       ELSE req' = [req EXCEPT ![r].pc = "read"]
    /\ UNCHANGED <<started, model_file, detector_model, tmpfiles, severityVars, bboxVars, labelVars>>

\* api_server.py:78-86 and 132-137.
ReadImage(r) ==
    /\ req[r].pc = "read"
    /\ IF req[r].upload.image = "notimage"
       THEN Fail(r, Exception("UnidentifiedImageError"))
       ELSE req' = [req EXCEPT ![r].pc = "tempfile"]
    /\ UNCHANGED <<started, model_file, detector_model, tmpfiles, severityVars, bboxVars, labelVars>>

\* api_server.py:89-91 and 139-141: the file exists as soon as it is
\* opened; cv2.imwrite then fills it or raises.
WriteTempFile(r) ==
    /\ req[r].pc = "tempfile"
    /\ LET name == NamedTemporaryFile(tmpfiles)
       IN  IF req[r].upload.image = "bilevel"
           THEN /\ tmpfiles' = (name :> [owner |-> r, content |-> "empty"]) @@ tmpfiles
                /\ Fail(r, Exception("cv2.error"))
           ELSE /\ tmpfiles' = (name :> [owner |-> r, content |-> req[r].upload.image])
                                   @@ tmpfiles
                /\ req' = [req EXCEPT ![r].temp_path = name, ![r].pc = "detect"]
    /\ UNCHANGED <<started, model_file, detector_model, severityVars, bboxVars, labelVars>>

\* api_server.py:95-98 and 144-147.
Detect(r) ==
    /\ req[r].pc = "detect"
    /\ LET d == detect_damage(req[r].temp_path, detector_model, model_file, tmpfiles)
       IN  /\ detector_model' = d.model
           /\ IF d.out.kind = "raise"
              THEN req' = [req EXCEPT ![r].detect_calls = @ + 1,
                                      ![r].pending = d.out, ![r].pc = "cleanup"]
              ELSE IF d.out.kind = "return_none"
              THEN req' = [req EXCEPT ![r].detect_calls = @ + 1,
                                      ![r].pending =
                                          Raise(HTTPException(500, "Damage detection failed")),
                                      ![r].pc = "cleanup"]
              ELSE req' = [req EXCEPT ![r].detect_calls = @ + 1,
                                      ![r].damages = d.out.value,
                                      ![r].pc = IF req[r].endpoint = "/detect-damage"
                                                THEN "report" ELSE "visualize"]
    /\ UNCHANGED <<started, model_file, tmpfiles, severityVars, bboxVars, labelVars>>

\* api_server.py:150-155: visualize_detections returns None when cv2.imread
\* cannot read the file, and cv2.imencode then raises.
Visualize(r) ==
    /\ req[r].pc = "visualize"
    /\ IF req[r].temp_path \in DOMAIN tmpfiles
       THEN req' = [req EXCEPT ![r].pc = "report"]
       ELSE req' = [req EXCEPT ![r].pending = Raise(Exception("cv2.error")),
                               ![r].pc = "cleanup"]
    /\ UNCHANGED <<started, model_file, detector_model, tmpfiles, severityVars, bboxVars, labelVars>>

\* api_server.py:101-113 and 157-167.
BuildReport(r) ==
    /\ req[r].pc = "report"
    /\ LET report == generate_report(req[r].damages, FilenameOf(r))
       IN  req' = [req EXCEPT ![r].pending =
                                  IF report.kind = "raise" THEN report
                                  ELSE Return(ApiResponse(r, report.value, req[r].damages)),
                              ![r].pc = "cleanup"]
    /\ UNCHANGED <<started, model_file, detector_model, tmpfiles, severityVars, bboxVars, labelVars>>

\* api_server.py:115-120 and 169-173: the finally clause, then the return
\* or the outer except.
Cleanup(r) ==
    /\ req[r].pc = "cleanup"
    /\ tmpfiles' = [n \in DOMAIN tmpfiles \ {req[r].temp_path} |-> tmpfiles[n]]
    /\ req' = [req EXCEPT ![r].pc = "done",
                          ![r].response =
                              IF req[r].pending.kind = "raise"
                              THEN ProcessingError(req[r].pending.exception)
                              ELSE req[r].pending.value]
    /\ UNCHANGED <<started, model_file, detector_model, severityVars, bboxVars, labelVars>>

InitApiIdle ==
    /\ started = FALSE
    /\ model_file = FALSE
    /\ detector_model = "None"
    /\ tmpfiles = <<>>
    /\ req = [r \in Requests |-> IdleRequest]
    /\ lpc = "closed"
    /\ annotation = [shape |-> <<1, 1>>, damages |-> <<>>]
    /\ next_damage = 1
    /\ label_text = <<>>
    /\ processed_count = 0

(***************************************************************************)
(* convert_to_yolo.py : VehiDEToYOLO.process_annotations, the label file   *)
(* of one image.  The text of the file is kept as the sequence of pieces   *)
(* written; a number is kept as its value, not as its digits.              *)
(***************************************************************************)
class_ids ==
    [t \in {damage_classes[c] : c \in DOMAIN damage_classes} |->
        CHOOSE c \in DOMAIN damage_classes : damage_classes[c] = t]

\* The damage entries an annotation may hold; bbox <<>> stands for a
\* missing or empty bbox, type "None" for a missing type.
DamageAnnotations ==
    { [type |-> "scratch",     bbox |-> <<0, 0, 2, 1>>],
      [type |-> "broken_part", bbox |-> <<1, 0, 3, 2>>],
      [type |-> "flat_tire",   bbox |-> <<0, 1, 1, 2>>],
      [type |-> "dent",        bbox |-> <<>>],
      [type |-> "None",        bbox |-> <<1, 1, 2, 2>>] }

\* image.shape[:2] of the images of the dataset: (height, width).
ImageShapes == {<<2, 4>>, <<3, 3>>}

Text(str) == [kind |-> "text", value |-> str]
Number(n) == [kind |-> "number", value |-> n]

\* The end of the f-string of line 120, "\\n" in the Python source: a
\* backslash followed by the letter n.
LineEnding == Text("\\n")

\* f"{class_id} {' '.join(map(str, yolo_bbox))}" and the line ending.
LabelLine(class_id, yolo) ==
    << Number(class_id), Text(" "), Number(yolo[1]), Text(" "), Number(yolo[2]),
       Text(" "), Number(yolo[3]), Text(" "), Number(yolo[4]), LineEnding >>

\* with open(label_path, 'w') as label_file
OpenLabelFile ==
    /\ lpc = "start"
    /\ label_text' = <<>>
    /\ next_damage' = 1
    /\ lpc' = "writing"
    /\ UNCHANGED <<annotation, processed_count, severityVars, bboxVars, apiVars>>

\* One turn of "for damage in damages".
WriteLabel ==
    /\ lpc = "writing"
    /\ next_damage <= Len(annotation.damages)
    /\ LET damage == annotation.damages[next_damage]
           img_h == annotation.shape[1]
           img_w == annotation.shape[2]
       IN  IF damage.type \in DOMAIN class_ids /\ damage.bbox # <<>>
           THEN LET yolo == convert_bbox_to_yolo(damage.bbox, img_w, img_h)
                IN  label_text' =
                        label_text \o LabelLine(class_ids[damage.type], yolo.value)
           ELSE label_text' = label_text
    /\ next_damage' = next_damage + 1
    /\ UNCHANGED <<lpc, annotation, processed_count, severityVars, bboxVars, apiVars>>

\* The with block ends; processed_count += 1.
CloseLabelFile ==
    /\ lpc = "writing"
    /\ next_damage > Len(annotation.damages)
    /\ lpc' = "closed"
    /\ processed_count' = processed_count + 1
    /\ UNCHANGED <<annotation, next_damage, label_text, severityVars, bboxVars, apiVars>>

RECURSIVE SeqsUpTo(_, _)
SeqsUpTo(S, n) ==
    IF n = 0 THEN {<<>>}
    ELSE LET shorter == SeqsUpTo(S, n - 1)
         IN  shorter \cup {Append(q, x) : q \in shorter, x \in S}

InitSeverity ==
    /\ pc = "detecting"
    /\ damages = <<>>
    /\ result = NotCalled

InitBBoxIdle ==
    /\ bpc = "input"
    /\ bbox = <<0, 0, 1, 1>>
    /\ img_width = 1
    /\ img_height = 1
    /\ yolo_bbox = NotCalled
    /\ restored = NotCalled

Init == InitSeverity /\ InitBBoxIdle /\ InitApiIdle

Next == DetectBox \/ GenerateReport \/ CallerAppends

Spec == Init /\ [][Next]_vars

NextBBox == ConvertBBox \/ DenormalizeBBox

InitConversion ==
    /\ bpc = "input"
    /\ bbox \in PixelCoords \X PixelCoords \X PixelCoords \X PixelCoords
    /\ img_width \in ImageDims
    /\ img_height \in ImageDims
    /\ yolo_bbox = NotCalled
    /\ restored = NotCalled
    /\ pc = "reported"
    /\ damages = <<>>
    /\ result = NotCalled
    /\ started = FALSE
    /\ model_file = FALSE
    /\ detector_model = "None"
    /\ tmpfiles = <<>>
    /\ req = [r \in Requests |-> IdleRequest]
    /\ lpc = "closed"
    /\ annotation = [shape |-> <<1, 1>>, damages |-> <<>>]
    /\ next_damage = 1
    /\ label_text = <<>>
    /\ processed_count = 0

SpecBBox == InitConversion /\ [][NextBBox]_vars

InitApi ==
    /\ started = FALSE
    /\ model_file \in BOOLEAN
    /\ detector_model = "None"
    /\ tmpfiles = <<>>
    /\ req = [r \in Requests |-> IdleRequest]
    /\ pc = "reported"
    /\ damages = <<>>
    /\ result = NotCalled
    /\ bpc = "input"
    /\ bbox = <<0, 0, 1, 1>>
    /\ img_width = 1
    /\ img_height = 1
    /\ yolo_bbox = NotCalled
    /\ restored = NotCalled
    /\ lpc = "closed"
    /\ annotation = [shape |-> <<1, 1>>, damages |-> <<>>]
    /\ next_damage = 1
    /\ label_text = <<>>
    /\ processed_count = 0

NextApi ==
    \/ startup_event
    \/ InstallModel
    \/ \E r \in Requests :
           \/ Receive(r) \/ Validate(r) \/ ReadImage(r) \/ WriteTempFile(r)
           \/ Detect(r) \/ Visualize(r) \/ BuildReport(r) \/ Cleanup(r)

SpecApi == InitApi /\ [][NextApi]_vars

InitLabels ==
    /\ lpc = "start"
    /\ annotation \in [shape : ImageShapes,
                        damages : SeqsUpTo(DamageAnnotations, MaxAnnotations)]
    /\ next_damage = 1
    /\ label_text = <<>>
    /\ processed_count = 0
    /\ pc = "reported"
    /\ damages = <<>>
    /\ result = NotCalled
    /\ bpc = "input"
    /\ bbox = <<0, 0, 1, 1>>
    /\ img_width = 1
    /\ img_height = 1
    /\ yolo_bbox = NotCalled
    /\ restored = NotCalled
    /\ started = FALSE
    /\ model_file = FALSE
    /\ detector_model = "None"
    /\ tmpfiles = <<>>
    /\ req = [r \in Requests |-> IdleRequest]

NextLabels == OpenLabelFile \/ WriteLabel \/ CloseLabelFile

SpecLabels == InitLabels /\ [][NextLabels]_vars


(***************************************************************************)
(* Properties of the damage report (checked under Spec).                   *)
(***************************************************************************)
Reported == pc = "reported" /\ result.kind = "return"

NumberOfType(ds, types) == Cardinality({i \in 1..Len(ds) : ds[i].type \in types})

\* The severity tier a label of assess_severity stands for.
TierOf(label) ==
    IF label \in {"No damage detected", "No damage"} THEN "NoDamage" ELSE label

\* C1: for a non-empty detection list the severity is the first matching
\* rule over total = length and severe_count = number of detections of type
\* broken_part, glass_damage or crack: Severe if severe_count >= 3 or
\* total >= 5, else Moderate if severe_count >= 1 or total >= 3, else Minor;
\* the empty list matches no rule and gets none of the three labels.
C1_SeverityFollowsOrderedRule ==
    pc = "reported" =>
        LET total == Len(damages)
            severe_count == NumberOfType(damages, {"broken_part", "glass_damage", "crack"})
            isSevere == severe_count >= 3 \/ total >= 5
            isModerate == ~isSevere /\ (severe_count >= 1 \/ total >= 3)
            isMinor == ~isSevere /\ ~isModerate /\ total >= 1
        IN  /\ result.kind = "return"
            /\ isSevere => result.value.severity_assessment = "Severe"
            /\ isModerate => result.value.severity_assessment = "Moderate"
            /\ isMinor => result.value.severity_assessment = "Minor"
            /\ total = 0 =>
                   result.value.severity_assessment \notin {"Severe", "Moderate", "Minor"}

C1_Witness ==
    /\ Reported
    /\ Len(damages) = 4
    /\ NumberOfType(damages, {"broken_part", "glass_damage", "crack"}) = 3
    /\ result.value.severity_assessment = "Severe"

\* C2: with no severe-type detection the tier is decided by the length
\* alone: 0 -> NoDamage, 1..2 -> Minor, 3..4 -> Moderate, 5 or more -> Severe.
C2_TierByLengthWithoutSevereTypes ==
    (pc = "reported"
        /\ \A i \in 1..Len(damages) :
               damages[i].type \notin {"broken_part", "glass_damage", "crack"}) =>
        /\ result.kind = "return"
        /\ TierOf(result.value.severity_assessment) =
               CASE Len(damages) = 0 -> "NoDamage"
                 [] Len(damages) \in 1..2 -> "Minor"
                 [] Len(damages) \in 3..4 -> "Moderate"
                 [] Len(damages) >= 5 -> "Severe"

C2_Witness ==
    /\ Reported
    /\ Len(damages) = 5
    /\ \A i \in 1..Len(damages) :
           damages[i].type \notin {"broken_part", "glass_damage", "crack"}
    /\ result.value.severity_assessment = "Severe"

\* C3: severe-type membership is tested before the total thresholds of the
\* tier: exactly one detection, a crack, gives Moderate (not Minor); exactly
\* three detections, all cracks, give Severe although 3 < 5.
C3_SevereTypeBeforeTotal ==
    (pc = "reported" /\ \A i \in 1..Len(damages) : damages[i].type = "crack") =>
        /\ Len(damages) = 1 =>
               /\ result.kind = "return"
               /\ result.value.severity_assessment = "Moderate"
               /\ result.value.severity_assessment # "Minor"
        /\ Len(damages) = 3 =>
               /\ result.kind = "return"
               /\ result.value.severity_assessment = "Severe"

C3_Witness ==
    /\ Reported
    /\ Len(damages) = 3
    /\ \A i \in 1..3 : damages[i].type = "crack"
    /\ damages[1].confidence # damages[2].confidence
    /\ result.value.severity_assessment = "Severe"

\* C4: damage_summary has exactly the types occurring in the list as keys,
\* each mapped to the number of detections of that type; a type that does
\* not occur has no key (and no key has the value 0).
C4_SummaryCountsOccurringTypes ==
    pc = "reported" =>
        /\ result.kind = "return"
        /\ DOMAIN result.value.damage_summary =
               {damages[i].type : i \in 1..Len(damages)}
        /\ \A t \in DOMAIN result.value.damage_summary :
               /\ result.value.damage_summary[t] = NumberOfType(damages, {t})
               /\ result.value.damage_summary[t] # 0

C4_Witness ==
    /\ Reported
    /\ Len(damages) = 3
    /\ damages[1].type = "dent" /\ damages[2].type = "dent"
    /\ damages[3].type = "scratch"
    /\ result.value.damage_summary = ("dent" :> 2) @@ ("scratch" :> 1)
    /\ "rust" \notin DOMAIN result.value.damage_summary

\* C5 as stated: the report of the empty list has total_damages = 0, an
\* empty damage_summary and a field named severity with value "NoDamage".
C5_EmptyReportHasSeverityNoDamage ==
    (pc = "reported" /\ damages = <<>>) =>
        /\ result.kind = "return"
        /\ result.value.total_damages = 0
        /\ DOMAIN result.value.damage_summary = {}
        /\ "severity" \in DOMAIN result.value
        /\ result.value.severity = "NoDamage"

\* C5 amended: the report of the empty list has total_damages = 0, an empty
\* damage_summary, an empty detailed_damages, and its severity is carried by
\* the field severity_assessment with the value "No damage detected"; the
\* report has no field named severity.
C5_EmptyReport ==
    (pc = "reported" /\ damages = <<>>) =>
        /\ result.kind = "return"
        /\ result.value.total_damages = 0
        /\ DOMAIN result.value.damage_summary = {}
        /\ ElementsOf(result.value.detailed_damages) = <<>>
        /\ "severity" \notin DOMAIN result.value
        /\ result.value.severity_assessment = "No damage detected"

C5_Witness ==
    /\ Reported
    /\ damages = <<>>
    /\ result.value.total_damages = 0

\* The detection list with every out-of-vocabulary detection retyped as the
\* non-severe vocabulary type scratch.
RetypeUnknown(ds) ==
    [i \in 1..Len(ds) |->
        IF ds[i].type \in {damage_classes[c] : c \in DOMAIN damage_classes}
        THEN ds[i]
        ELSE [ds[i] EXCEPT !.type = "scratch"]]

\* C10: building the report never raises; the empty list gives the NoDamage
\* tier; a detection whose class id is outside the ten-class vocabulary is
\* counted in total_damages, is counted in damage_summary under its
\* unknown_<id> key, and weighs in the severity rule as a non-severe type.
C10_ReportNeverRaises ==
    pc = "reported" =>
        /\ result.kind = "return"
        /\ damages = <<>> => TierOf(result.value.severity_assessment) = "NoDamage"
        /\ result.value.total_damages = Len(damages)
        /\ \A i \in 1..Len(damages) :
               damages[i].type \notin {damage_classes[c] : c \in DOMAIN damage_classes} =>
                   /\ damages[i].type \in {"unknown_10", "unknown_11"}
                   /\ damages[i].type \in DOMAIN result.value.damage_summary
                   /\ result.value.damage_summary[damages[i].type] =
                          NumberOfType(damages, {damages[i].type})
        /\ assess_severity(RetypeUnknown(damages)) =
               Return(result.value.severity_assessment)

C10_Witness ==
    /\ Reported
    /\ Len(damages) = 3
    /\ damages[1].type = "unknown_10"
    /\ damages[2].type = "unknown_11"
    /\ damages[3].type = "unknown_10"
    /\ result.value.total_damages = 3
    /\ result.value.damage_summary = ("unknown_10" :> 2) @@ ("unknown_11" :> 1)
    /\ result.value.severity_assessment = "Moderate"

(***************************************************************************)
(* Properties of the bbox conversion (checked under SpecBBox).             *)
(***************************************************************************)
Converted == yolo_bbox.kind # "none"

FullyInside ==
    /\ img_width > 0 /\ img_height > 0
    /\ 0 <= bbox[1] /\ bbox[1] <= bbox[3] /\ bbox[3] <= img_width
    /\ 0 <= bbox[2] /\ bbox[2] <= bbox[4] /\ bbox[4] <= img_height

\* r = n/d for a rational r and integers n, d (d # 0).
RatIs(r, n, d) == r.den > 0 /\ r.num * d = n * r.den

InUnitInterval(r) == r.den > 0 /\ 0 <= r.num /\ r.num <= r.den

\* C6: for positive W and H the conversion returns [xc, yc, w, h], in that
\* order, with xc = ((x1+x2)/2)/W, yc = ((y1+y2)/2)/H, w = (x2-x1)/W and
\* h = (y2-y1)/H; a zero-area box raises nothing and yields w = 0 or h = 0.
C6_CentreFormFormula ==
    (Converted /\ img_width > 0 /\ img_height > 0) =>
        /\ yolo_bbox.kind = "return"
        /\ Len(yolo_bbox.value) = 4
        /\ RatIs(yolo_bbox.value[1], bbox[1] + bbox[3], 2 * img_width)
        /\ RatIs(yolo_bbox.value[2], bbox[2] + bbox[4], 2 * img_height)
        /\ RatIs(yolo_bbox.value[3], bbox[3] - bbox[1], img_width)
        /\ RatIs(yolo_bbox.value[4], bbox[4] - bbox[2], img_height)
        /\ bbox[1] = bbox[3] => yolo_bbox.value[3].num = 0
        /\ bbox[2] = bbox[4] => yolo_bbox.value[4].num = 0

C6_Witness ==
    /\ Converted
    /\ img_width = 3 /\ img_height = 2
    /\ bbox = <<1, 1, 1, 2>>
    /\ yolo_bbox.kind = "return"
    /\ yolo_bbox.value = << [num |-> 1, den |-> 3], [num |-> 3, den |-> 4],
                            [num |-> 0, den |-> 1], [num |-> 1, den |-> 2] >>

\* C7: for a bbox with 0 <= x1 <= x2 <= W and 0 <= y1 <= y2 <= H all four
\* outputs lie in [0,1]; nothing is clamped, so for W, H > 0 a box wider or
\* taller than the image, one centred beyond the far edge or before the
\* origin, or one with swapped corners comes back with the output outside
\* [0,1] that the formula gives.
C7_UnitIntervalInsideNoClamping ==
    (Converted /\ img_width > 0 /\ img_height > 0) =>
        /\ yolo_bbox.kind = "return"
        /\ FullyInside => \A k \in 1..4 : InUnitInterval(yolo_bbox.value[k])
        /\ bbox[1] + bbox[3] > 2 * img_width =>
               yolo_bbox.value[1].num > yolo_bbox.value[1].den
        /\ bbox[1] + bbox[3] < 0 => yolo_bbox.value[1].num < 0
        /\ bbox[2] + bbox[4] > 2 * img_height =>
               yolo_bbox.value[2].num > yolo_bbox.value[2].den
        /\ bbox[2] + bbox[4] < 0 => yolo_bbox.value[2].num < 0
        /\ bbox[3] - bbox[1] > img_width =>
               yolo_bbox.value[3].num > yolo_bbox.value[3].den
        /\ bbox[3] < bbox[1] => yolo_bbox.value[3].num < 0
        /\ bbox[4] - bbox[2] > img_height =>
               yolo_bbox.value[4].num > yolo_bbox.value[4].den
        /\ bbox[4] < bbox[2] => yolo_bbox.value[4].num < 0

C7_Witness ==
    /\ Converted
    /\ img_width = 2 /\ img_height = 2
    /\ bbox = <<0, 1, 3, 2>>
    /\ ~FullyInside
    /\ yolo_bbox.kind = "return"
    /\ yolo_bbox.value[3] = [num |-> 3, den |-> 2]

C9_FailsOnNonPositiveDimension ==
    (Converted /\ (img_width <= 0 \/ img_height <= 0)) => yolo_bbox.kind = "raise"

\* C9 amended: the conversion fails, with Python's ZeroDivisionError, exactly
\* when W = 0 or H = 0, and returns no values then; for a negative W or H
\* (neither being zero) it raises nothing and returns the values divided by
\* the negative dimension; a bbox with x1 >= x2 or y1 >= y2 is not rejected.
C9_FailsOnZeroDimensionOnly ==
    Converted =>
        /\ (img_width = 0 \/ img_height = 0) =>
               yolo_bbox = [kind |-> "raise", exception |-> "ZeroDivisionError"]
        /\ (img_width # 0 /\ img_height # 0) =>
               /\ yolo_bbox.kind = "return"
               /\ RatIs(yolo_bbox.value[1], bbox[1] + bbox[3], 2 * img_width)
               /\ RatIs(yolo_bbox.value[2], bbox[2] + bbox[4], 2 * img_height)
               /\ RatIs(yolo_bbox.value[3], bbox[3] - bbox[1], img_width)
               /\ RatIs(yolo_bbox.value[4], bbox[4] - bbox[2], img_height)

C9_Witness ==
    /\ Converted
    /\ img_width < 0 /\ img_height > 0
    /\ bbox[1] > bbox[3] /\ bbox[2] = bbox[4]
    /\ yolo_bbox.kind = "return"
    /\ yolo_bbox.value[3].num > 0

(***************************************************************************)
(* Aliasing of the report and its input (checked under Spec).              *)
(***************************************************************************)
DetailedDamages == ElementsOf(result.value.detailed_damages)

\* C11 as stated: generate_report leaves its input as it was, and the
\* report's detailed_damages is a copy, so a later change to the input
\* sequence does not change the report already built.
C11_ReportKeepsItsOwnCopy ==
    [][ /\ (pc = "detecting" /\ pc' = "reported" /\ result'.kind = "return") =>
               damages' = damages /\ DetailedDamages' = damages
        /\ (pc \in {"reported", "mutated"} /\ result.kind = "return") =>
               DetailedDamages' = DetailedDamages ]_vars

\* C11 amended: generate_report leaves its input as it was (same elements,
\* same order); the report's detailed_damages is the input list itself, not
\* a copy, so at every later time it holds exactly what the input holds, and
\* a later change to the input sequence shows in the report already built,
\* while total_damages, damage_summary and severity_assessment stay as built.
C11_ReportSharesItsInput ==
    [][ /\ (pc = "detecting" /\ pc' = "reported" /\ result'.kind = "return") =>
               damages' = damages /\ DetailedDamages' = damages
        /\ (pc \in {"reported", "mutated"} /\ result.kind = "return") =>
               /\ DetailedDamages' = damages'
               /\ result'.value.total_damages = result.value.total_damages
               /\ result'.value.damage_summary = result.value.damage_summary
               /\ result'.value.severity_assessment = result.value.severity_assessment ]_vars

C11_Witness ==
    /\ pc = "mutated"
    /\ result.kind = "return"
    /\ Len(damages) = 3
    /\ result.value.total_damages = 2
    /\ DetailedDamages = damages

(***************************************************************************)
(* Monotonicity of the severity (checked under Spec).                      *)
(***************************************************************************)
\* Place of a label in the order NoDamage < Minor < Moderate < Severe.
Rank(label) ==
    CASE TierOf(label) = "NoDamage" -> 0
      [] TierOf(label) = "Minor" -> 1
      [] TierOf(label) = "Moderate" -> 2
      [] TierOf(label) = "Severe" -> 3

SeverityRank(ds) == Rank(assess_severity(ds).value)

SwapAt(ds, i) == [ds EXCEPT ![i] = ds[i + 1], ![i + 1] = ds[i]]

\* The severity of ds is that of every list made from ds by swapping two
\* neighbours or by replacing a detection with another of the same type.
SameForSameTypes(ds) ==
    /\ \A i \in 1..(Len(ds) - 1) :
           assess_severity(SwapAt(ds, i)) = assess_severity(ds)
    /\ \A i \in 1..Len(ds) : \A box \in DetectorBoxes :
           damage_info(box).type = ds[i].type =>
               assess_severity([ds EXCEPT ![i] = damage_info(box)]) = assess_severity(ds)

\* C17: appending a detection of any type and confidence never lowers the
\* severity in the order NoDamage < Minor < Moderate < Severe; and the
\* severity is the same for every reordering of the list and for every
\* change of a detection's confidence and bbox that keeps its type (every
\* non-empty list is reached by the detection loop's appends).
C17_SeverityMonotoneInAppends ==
    [][ (pc = "detecting" /\ damages' # damages) =>
            /\ Len(damages') = Len(damages) + 1
            /\ SubSeq(damages', 1, Len(damages)) = damages
            /\ assess_severity(damages').kind = "return"
            /\ SeverityRank(damages') >= SeverityRank(damages)
            /\ SameForSameTypes(damages') ]_vars

C17_Witness ==
    /\ pc = "detecting"
    /\ Len(damages) = 3
    /\ damages[1].type = "crack" /\ damages[3].type = "crack"
    /\ damages[1].confidence > damages[3].confidence
    /\ damages[2].type = "unknown_11"
    /\ SeverityRank(damages) = 2
    /\ SeverityRank(SubSeq(damages, 1, 2)) = 2
    /\ SeverityRank(SubSeq(damages, 2, 2)) = 1

(***************************************************************************)
(* Properties of the API server (checked under SpecApi).                   *)
(***************************************************************************)
\* The detections of the image a request uploaded.
OwnDetections(r) ==
    LET boxes == BoxesIn(req[r].upload.image)
    IN  [i \in 1..Len(boxes) |-> damage_info(boxes[i])]

Answered(r) == req[r].pc = "done"
Succeeded(r) == Answered(r) /\ req[r].response.status = 200
Failed(r) == Answered(r) /\ req[r].response.status # 200

\* C12: in every interleaving of the requests, the report returned to a
\* request is the report of its own detections and its own filename
\* (total_damages, damage_summary, detailed_damages, severity), whatever the
\* other requests do; and the step that builds a report changes nothing
\* shared between requests and nothing of another request.
C12_ReportIsTheRequestsOwn ==
    [][ \A r \in Requests :
          /\ (~Answered(r) /\ Answered(r)' /\ Succeeded(r)') =>
                 /\ req'[r].response.body.filename = FilenameOf(r)
                 /\ req'[r].response.body.image = FilenameOf(r)
                 /\ req'[r].response.body.detailed_damages = OwnDetections(r)
                 /\ req'[r].response.body.total_damages = Len(OwnDetections(r))
                 /\ DOMAIN req'[r].response.body.damage_summary =
                        {OwnDetections(r)[i].type : i \in 1..Len(OwnDetections(r))}
                 /\ \A t \in DOMAIN req'[r].response.body.damage_summary :
                        req'[r].response.body.damage_summary[t] =
                            NumberOfType(OwnDetections(r), {t})
                 /\ Return(req'[r].response.body.severity_assessment) =
                        assess_severity(OwnDetections(r))
          /\ (req[r].pc = "report" /\ req'[r].pc # "report") =>
                 /\ UNCHANGED <<started, model_file, detector_model, tmpfiles>>
                 /\ \A q \in Requests \ {r} : req'[q] = req[q] ]_vars

C12_Witness ==
    /\ req[1].pc = "cleanup" /\ req[1].pending.kind = "return"
    /\ req[1].pending.value.body.total_damages = 2
    /\ req[1].pending.value.body.filename = "car1.jpg"
    /\ req[2].pc = "cleanup" /\ req[2].pending.kind = "return"
    /\ req[2].pending.value.body.total_damages = 0
    /\ req[2].pending.value.body.filename = "car2.jpg"
    /\ Cardinality(DOMAIN tmpfiles) = 2

\* The failures that come from the Detector and ImageStore collaborators
\* (unsupported file type, unreadable image, model or image file missing,
\* inference failing) and those that do not.
CollaboratorFailures ==
    { [type |-> "HTTPException", status_code |-> 400, detail |-> "File must be an image"],
      [type |-> "HTTPException", status_code |-> 500, detail |-> "Damage detection failed"],
      [type |-> "UnidentifiedImageError"],
      [type |-> "RuntimeError"] }
OtherFailures == { [type |-> "AttributeError"], [type |-> "cv2.error"] }

CauseOf(r) == req[r].response.detail[Len(req[r].response.detail)]
OutcomeKind(r) == <<req[r].response.status, req[r].response.detail[1]>>

\* C13 as stated: a collaborator failure is reported as an outcome of its
\* own kind, unlike a success and unlike every other processing error.
C13_CollaboratorFailureIsDistinct ==
    \A r \in Requests : \A q \in Requests :
        (Failed(r) /\ CauseOf(r) \in CollaboratorFailures /\ Answered(q)) =>
            /\ Succeeded(q) => req[q].response.status # req[r].response.status
            /\ (Failed(q) /\ CauseOf(q) \in OtherFailures) =>
                   OutcomeKind(q) # OutcomeKind(r)

\* C13 amended: a collaborator failure is reported as HTTP status 500 with
\* the detail "Processing error: " followed by the text of the failure,
\* which is the outcome every other processing error has too; it differs
\* from every successful result (status 200, success true), an empty one
\* included; and a request calls detect_damage at most once, so the failed
\* operation is not tried again.
C13_CollaboratorFailureIsProcessingError ==
    \A r \in Requests :
        /\ req[r].detect_calls <= 1
        /\ Failed(r) =>
               /\ OutcomeKind(r) = <<500, "Processing error: ">>
               /\ Len(req[r].response.detail) = 2
               /\ CauseOf(r) \in CollaboratorFailures \cup OtherFailures
               /\ (CauseOf(r).type = "HTTPException" /\ CauseOf(r).status_code = 500) =>
                      req[r].detect_calls = 1
        /\ Succeeded(r) =>
               /\ req[r].response.body.success
               /\ req[r].detect_calls = 1

C13_Witness ==
    /\ Failed(1)
    /\ CauseOf(1) = [type |-> "HTTPException", status_code |-> 500,
                     detail |-> "Damage detection failed"]
    /\ req[1].detect_calls = 1
    /\ Failed(2)
    /\ CauseOf(2) = [type |-> "AttributeError"]
    /\ OutcomeKind(1) = OutcomeKind(2)

\* C14: a POST /detect-damage whose file has a content type that does not
\* start with "image/" is answered with status 400 and the detail "File
\* must be an image"; no temporary file is created and no detection is run
\* for it.
C14_NonImageIsAnswered400 ==
    \A r \in Requests :
        (Answered(r) /\ req[r].endpoint = "/detect-damage"
             /\ req[r].upload.content_type = "text/plain") =>
            /\ req[r].response.status = 400
            /\ req[r].response.detail = <<"File must be an image">>
            /\ req[r].temp_path = 0
            /\ req[r].detect_calls = 0
            /\ \A n \in DOMAIN tmpfiles : tmpfiles[n].owner # r

\* C15: no temporary file created by a request exists once that request
\* has been answered, whichever way the request ended.
C15_NoTempFileOutlivesItsRequest ==
    \A n \in DOMAIN tmpfiles : ~Answered(tmpfiles[n].owner)

(***************************************************************************)
(* Properties of the label files (checked under SpecLabels).               *)
(***************************************************************************)
\* A line ending that is the newline character.
NewlineEnding == Text("\n")

\* The text that holds one newline-terminated line for each annotation
\* with a type of the ten-class vocabulary and a bbox.
RECURSIVE ExpectedLabelText(_, _)
ExpectedLabelText(ds, shape) ==
    IF ds = <<>> THEN <<>>
    ELSE LET d == ds[1]
             known == d.type \in {"scratch", "dent", "crack", "glass_damage",
                                  "paint_damage", "bumper_damage", "headlight_damage",
                                  "tire_damage", "rust", "broken_part"}
             line == IF known /\ d.bbox # <<>>
                     THEN << Number(class_ids[d.type]), Text(" "),
                             Number(Rat(d.bbox[1] + d.bbox[3], 2 * shape[2])), Text(" "),
                             Number(Rat(d.bbox[2] + d.bbox[4], 2 * shape[1])), Text(" "),
                             Number(Rat(d.bbox[3] - d.bbox[1], shape[2])), Text(" "),
                             Number(Rat(d.bbox[4] - d.bbox[2], shape[1])), NewlineEnding >>
                     ELSE <<>>
         IN  line \o ExpectedLabelText(Tail(ds), shape)

\* C16: the label file written for an image holds exactly one
\* newline-terminated line "class_id x_center y_center width height", with
\* class_id in 0..9, per damage annotation whose type is in the vocabulary
\* and whose bbox is present, in annotation order, and nothing else.
C16_OneLinePerKnownDamage ==
    lpc = "closed" =>
        /\ label_text = ExpectedLabelText(annotation.damages, annotation.shape)
        /\ \A k \in 1..Len(label_text) :
               (k % 10 = 1) => label_text[k].value \in 0..9

====
